---- MODULE Spec2Model ----
(***************************************************************************)
(* The income ticker of src/app/components/RichPerson.tsx: the persisted   *)
(* timer state {income, isRunning, startTime} of useIncomeTracker, its     *)
(* write-through to window.localStorage, the auto-run effect, the live     *)
(* clock of useCurrentIncome and the page's guarded controls.              *)
(*                                                                         *)
(* React's scheduling is modelled as it is: an event handler's setState    *)
(* calls are batched into one commit; the effects whose dependencies       *)
(* changed in that commit run afterwards in one flush (FlushEffects); a    *)
(* setState made by an effect produces a further commit and flush.  The    *)
(* pending flush is always run before the next event handler.              *)
(***************************************************************************)
EXTENDS Integers, Sequences, FiniteSets, TLC

\* ---- bounds ----
MaxNow == 2        \* Date.now() ranges over 1..MaxNow
MaxIncome == 2     \* the income input ranges over -1..MaxIncome

VARIABLES
    now,            \* the wall clock read by Date.now()
    status,         \* "mounted": Home is rendered; "error": clientLoader threw
    income,         \* useIncomeTracker state (a number)
    isRunning,      \* useIncomeTracker state (a boolean)
    startTime,      \* useIncomeTracker state: Null or <<epoch millis>>
    localStorage,   \* window.localStorage: a function from the keys present to strings
    dirty,          \* effect dependencies changed by commits not yet flushed
    intervalId,     \* TRUE while the setInterval of useCurrentIncome is installed
    currentTime,    \* the sampled clock of useCurrentIncome
    cardsMounted,   \* TRUE while the comparison cards are rendered
    cardIntervals,  \* for each card, the number of its setInterval timers installed
    cardTime,       \* for each card, the sampled clock of its useCurrentIncome
    last            \* the last operation called: its name, argument (the income
                    \* passed to setIncome), timestamp and the state before it

vars == <<now, status, income, isRunning, startTime, localStorage, dirty,
          intervalId, currentTime, cardsMounted, cardIntervals, cardTime, last>>

Keys == {"income", "isRunning", "startTime"}

\* JavaScript null; a timestamp t is held as <<t>>
Null == <<>>

Numbers == -1 .. (IF MaxNow > MaxIncome THEN MaxNow ELSE MaxIncome)

\* ---- JavaScript conversions ----

\* JSON.stringify of a number, a boolean, and a number | null
JSONStringifyNumber(n) == ToString(n)

JSONStringifyBoolean(b) == IF b THEN "true" ELSE "false"

JSONStringifyNullable(t) == IF t = Null THEN "null" ELSE ToString(t[1])

\* the texts JSON.parse accepts (all others make it throw a SyntaxError)
IsJSON(s) == s \in {"null", "true", "false"} \cup {ToString(n) : n \in Numbers}

JSONParseNumber(s) == CHOOSE n \in Numbers : ToString(n) = s

JSONParseBoolean(s) == s = "true"

JSONParseNullable(s) == IF s = "null" THEN Null ELSE <<JSONParseNumber(s)>>

\* Number(e.target.value) of the <input type="number">: "" is 0
InputTexts == {""} \cup {ToString(n) : n \in -1 .. MaxIncome}

NumberOfText(text) == IF text = "" THEN 0 ELSE CHOOSE n \in Numbers : ToString(n) = text

\* truthiness of `startTime` (number | null): null and 0 are falsy
TruthyTime(t) == t # Null /\ t[1] # 0

\* `storedValue ? ... : ...` on the result of getItem: absent (null) and "" are falsy
HasItem(store, key) == key \in DOMAIN store /\ store[key] # ""

\* ---- the timer state ----

TimerState == [income |-> income, isRunning |-> isRunning, startTime |-> startTime]

DefaultState == [income |-> 0, isRunning |-> FALSE, startTime |-> Null]

\* the JSON text the write effect stores for a key
Encoded(s, key) ==
    CASE key = "income" -> JSONStringifyNumber(s.income)
      [] key = "isRunning" -> JSONStringifyBoolean(s.isRunning)
      [] key = "startTime" -> JSONStringifyNullable(s.startTime)

\* ---- loading the page ----

\* clientLoader throws when JSON.parse meets a truthy entry that is not JSON
clientLoaderThrows(store) ==
    \E key \in Keys : HasItem(store, key) /\ ~IsJSON(store[key])

\* new Date(JSON.parse(text)): new Date(null) is the epoch, <<0>>
NewDate(t) == IF t = Null THEN <<0>> ELSE t

clientLoader(store) ==
    [income |-> IF HasItem(store, "income")
                THEN JSONParseNumber(store["income"]) ELSE 0,
     startTime |-> IF HasItem(store, "startTime")
                   THEN NewDate(JSONParseNullable(store["startTime"])) ELSE Null,
     isRunning |-> IF HasItem(store, "isRunning")
                   THEN JSONParseBoolean(store["isRunning"]) ELSE FALSE]

\* initializers that leave isRunning to the auto-run effect instead of restoring it
useIncomeTrackerInitNotRunning(store, data) ==
    [income |-> IF HasItem(store, "income")
                THEN JSONParseNumber(store["income"]) ELSE data.income,
     isRunning |-> FALSE,
     startTime |-> IF HasItem(store, "startTime")
                   THEN JSONParseNullable(store["startTime"]) ELSE data.startTime]

\* the three useState initializers of useLocalStorageState under useIncomeTracker;
\* `initialIncome || 0`, `initialIsRunning || false` and
\* `initialStartTime ? Number(initialStartTime) : null` are the initial values
useIncomeTrackerInit(store, data) ==
    [income |-> IF HasItem(store, "income")
                THEN JSONParseNumber(store["income"]) ELSE data.income,
     isRunning |-> IF HasItem(store, "isRunning")
                   THEN JSONParseBoolean(store["isRunning"]) ELSE data.isRunning,
     startTime |-> IF HasItem(store, "startTime")
                   THEN JSONParseNullable(store["startTime"]) ELSE data.startTime]

\* ---- the handlers, as functions of the rendered state ----

\* a start that always sets isRunning instead of toggling it
handleStartSetsTrue(s, t) == [s EXCEPT !.isRunning = TRUE, !.startTime = <<t>>]

handleStart(s, t) == [s EXCEPT !.isRunning = ~s.isRunning, !.startTime = <<t>>]

\* a reset that forgets setIncome(0)
handleResetKeepsIncome(s) == [s EXCEPT !.isRunning = FALSE, !.startTime = Null]

handleReset(s) == [s EXCEPT !.isRunning = FALSE, !.startTime = Null, !.income = 0]

\* an income change that also clears the start time
onChangeIncomeClearsStart(s, text) ==
    [s EXCEPT !.income = NumberOfText(text), !.startTime = Null]

onChangeIncome(s, text) == [s EXCEPT !.income = NumberOfText(text)]

\* an auto-run effect that does not look at startTime
autoRunConditionIncomeOnly(s) == s.income > 0

\* an auto-run effect that accepts income 0
autoRunConditionNonNegative(s) == s.income >= 0 /\ TruthyTime(s.startTime)

\* the auto-run effect's condition
autoRunCondition(s) == s.income > 0 /\ TruthyTime(s.startTime)

\* an auto-run effect that also depends on isRunning
autoRunDepsWithIsRunning == {"income", "startTime", "isRunning"}

\* the dependencies of the auto-run effect among the state keys
autoRunDeps == {"income", "startTime"}

\* write effects that run on mount only (dependencies [key] instead of [key, state])
writeEffectsOnMountOnly(store, s, changed) ==
    IF "mount" \in changed
    THEN [key \in Keys |-> Encoded(s, key)]
    ELSE store

\* the entries the write effects of a flush store
writeEffects(store, s, changed) ==
    [key \in DOMAIN store \cup (changed \cap Keys) |->
        IF key \in changed THEN Encoded(s, key) ELSE store[key]]

\* ---- amounts ----

\* a number m * 10^e; the large constants of the source do not fit a machine
\* integer of the checker, so a number carries a decimal exponent
Dec(m, e) == [m |-> m, e |-> e]

\* 365 * 24 * 60 * 60 * 1000
MillisPerYear == Dec(365 * 24 * 60 * 60, 3)

\* an amount is the exact quotient num / den of two numbers; the rounding of
\* IEEE doubles is not represented
Amount(num, den) == [num |-> num, den |-> den]

ZeroAmount == Amount(Dec(0, 0), Dec(1, 0))

\* an earned amount that takes an unset start for the epoch
useCurrentIncomeNoGuard(annualIncome, since, time) ==
    Amount(Dec((time - (IF since = Null THEN 0 ELSE since[1])) * annualIncome.m,
               annualIncome.e),
           MillisPerYear)

\* an earned amount with the elapsed time subtracted the wrong way round
useCurrentIncomeReversed(annualIncome, since, time) ==
    IF ~TruthyTime(since)
    THEN ZeroAmount
    ELSE Amount(Dec((since[1] - time) * annualIncome.m, annualIncome.e), MillisPerYear)

\* the useMemo of useCurrentIncome: `if (!since) return 0`, else
\* (currentTime - since) * (annualIncome / (365 * 24 * 60 * 60 * 1000))
useCurrentIncome(annualIncome, since, time) ==
    IF ~TruthyTime(since)
    THEN ZeroAmount
    ELSE Amount(Dec((time - since[1]) * annualIncome.m, annualIncome.e), MillisPerYear)

\* the `earned` that useIncomeTracker returns to Home
earned == useCurrentIncome(Dec(income, 0), startTime, currentTime)

\* ---- the comparison cards ----

People == {"Elon Musk", "Jeff Bezos", "Mark Zuckerberg"}

\* the annualIncome prop of each RichPerson
annualIncome(person) ==
    CASE person = "Elon Musk" -> Dec(147, 9)
      [] person = "Jeff Bezos" -> Dec(10, 9)
      [] person = "Mark Zuckerberg" -> Dec(2, 9)

\* `{isRunning && startTime && (...)}`: the cards are part of the rendered page
cardsRendered(s) == s.isRunning /\ TruthyTime(s.startTime)

\* the card effects a commit leaves to the next flush: the interval effect of
\* cards that were just mounted, its cleanup for cards that were just unmounted
cardEffects(s) ==
    IF cardsRendered(s) /\ ~cardsMounted THEN {"cardsMount"}
    ELSE IF ~cardsRendered(s) /\ cardsMounted THEN {"cardsUnmount"}
    ELSE {}

\* the sampled clocks of the cards after a commit: useState(Date.now()) for a
\* card that is mounted by it; an unmounted card has no state (0)
cardTimeAfter(s) ==
    IF ~cardsRendered(s) THEN [person \in People |-> 0]
    ELSE IF cardsMounted THEN cardTime
    ELSE [person \in People |-> now]

\* an interval effect without its cleanup
cardIntervalsAfterNoCleanup(changed) ==
    [person \in People |->
        IF "cardsMount" \in changed THEN cardIntervals[person] + 1
        ELSE cardIntervals[person]]

\* the interval effect of useCurrentIncome in each card, and its cleanup
cardIntervalsAfter(changed) ==
    [person \in People |->
        IF "cardsMount" \in changed THEN cardIntervals[person] + 1
        ELSE IF "cardsUnmount" \in changed /\ cardIntervals[person] > 0
             THEN cardIntervals[person] - 1
        ELSE cardIntervals[person]]

\* ---- currency formatting ----

\* a < b for numbers m * 10^e, without forming a product beyond the machine integer
DecLess(a, b) ==
    IF a.e >= b.e
    THEN a.m <= (b.m - 1) \div (10 ^ (a.e - b.e))
    ELSE (a.m \div (10 ^ (b.e - a.e))) < b.m

\* amount < n, for an amount with a positive denominator and n = 10^k
AmountLess(amount, k) == DecLess(amount.num, Dec(amount.den.m, amount.den.e + k))

\* a card formatter with the fraction digits of the page's formatter
formatCurrencyTwoDigits(amount) == 2

\* RichPerson.formatCurrency: minimumFractionDigits = maximumFractionDigits =
\* `amount < 1 ? 5 : amount < 100 ? 2 : 2`
formatCurrency(amount) ==
    IF AmountLess(amount, 0) THEN 5 ELSE IF AmountLess(amount, 2) THEN 2 ELSE 2

\* useFormatCurrency: minimumFractionDigits = maximumFractionDigits = 2
useFormatCurrency(amount) == 2

\* calculatePerSecond, calculatePerMinute, calculatePerHour of a card
calculatePerSecond(person) == Amount(annualIncome(person), Dec(365 * 24 * 60 * 60, 0))

calculatePerMinute(person) == Amount(annualIncome(person), Dec(365 * 24 * 60, 0))

calculatePerHour(person) == Amount(annualIncome(person), Dec(365 * 24, 0))

\* the amounts a card shows, each with the fraction digits it is formatted with
cardAmounts(person) ==
    {[on |-> "card", amount |-> a, digits |-> formatCurrency(a)] :
        a \in {Amount(annualIncome(person), Dec(1, 0)),
               useCurrentIncome(annualIncome(person), startTime, cardTime[person]),
               calculatePerSecond(person),
               calculatePerMinute(person),
               calculatePerHour(person)}}

\* the amounts on the page: the primary ticker card (hidden={!isRunning}) shows
\* formatCurrency(earned) with the page's formatter; the cards show theirs
displayedAmounts ==
    IF status # "mounted" THEN {}
    ELSE (IF isRunning
          THEN {[on |-> "ticker", amount |-> earned, digits |-> useFormatCurrency(earned)]}
          ELSE {})
         \cup (IF cardsMounted THEN UNION {cardAmounts(person) : person \in People} ELSE {})

\* ---- state machine ----

Loaded(store, op, t) ==
    IF clientLoaderThrows(store)
    THEN [status |-> "error", state |-> DefaultState, dirty |-> {},
          last |-> [op |-> op, arg |-> 0, at |-> t, pre |-> DefaultState,
                    preStore |-> store, prevOp |-> "none", preSettled |-> FALSE]]
    ELSE [status |-> "mounted",
          state |-> useIncomeTrackerInit(store, clientLoader(store)),
          dirty |-> Keys \cup {"mount"}
                        \cup (IF cardsRendered(useIncomeTrackerInit(store, clientLoader(store)))
                              THEN {"cardsMount"} ELSE {}),
          last |-> [op |-> op, arg |-> 0, at |-> t, pre |-> DefaultState,
                    preStore |-> store, prevOp |-> "none", preSettled |-> FALSE]]

EmptyStore == [key \in {} |-> ""]

InitFrom(store) ==
    /\ now \in 1 .. MaxNow
    /\ localStorage = store
    /\ status = Loaded(store, "load", now).status
    /\ income = Loaded(store, "load", now).state.income
    /\ isRunning = Loaded(store, "load", now).state.isRunning
    /\ startTime = Loaded(store, "load", now).state.startTime
    /\ dirty = Loaded(store, "load", now).dirty
    /\ last = Loaded(store, "load", now).last
    /\ intervalId = FALSE
    /\ currentTime = now
    /\ cardsMounted = (Loaded(store, "load", now).status = "mounted"
                          /\ cardsRendered(Loaded(store, "load", now).state))
    /\ cardIntervals = [person \in People |-> 0]
    /\ cardTime = [person \in People |->
                      IF Loaded(store, "load", now).status = "mounted"
                            /\ cardsRendered(Loaded(store, "load", now).state)
                      THEN now ELSE 0]

\* first visit: nothing persisted
Init == InitFrom(EmptyStore)

\* a commit of the state `new` rendered after an event handler
Commit(new, op, arg) ==
    /\ income' = new.income
    /\ isRunning' = new.isRunning
    /\ startTime' = new.startTime
    /\ dirty' = {key \in Keys : new[key] # TimerState[key]} \cup cardEffects(new)
    /\ cardsMounted' = cardsRendered(new)
    /\ cardTime' = cardTimeAfter(new)
    /\ last' = [op |-> op, arg |-> arg, at |-> now, pre |-> TimerState,
                preStore |-> localStorage, prevOp |-> last.op, preSettled |-> TRUE]
    /\ UNCHANGED <<now, status, localStorage, intervalId, currentTime, cardIntervals>>

Settled == status = "mounted" /\ dirty = {}

Start ==
    /\ Settled
    /\ Commit(handleStart(TimerState, now), "start", 0)

Reset ==
    /\ Settled
    /\ Commit(handleReset(TimerState), "reset", 0)

SetIncome ==
    /\ Settled
    /\ \E text \in InputTexts :
          Commit(onChangeIncome(TimerState, text), "setIncome", onChangeIncome(TimerState, text).income)

\* the effects of the last commit: the write effects of the changed keys, the
\* auto-run effect when income or startTime changed, the interval on mount, the
\* interval effects and cleanups of the cards; a setIsRunning(true) made by the
\* auto-run effect is the next commit
FlushEffects ==
    /\ status = "mounted"
    /\ dirty # {}
    /\ localStorage' = writeEffects(localStorage, TimerState, dirty)
    /\ intervalId' = (intervalId \/ "mount" \in dirty)
    /\ cardIntervals' = cardIntervalsAfter(dirty)
    /\ IF /\ (dirty \cap autoRunDeps # {} \/ "mount" \in dirty)
          /\ autoRunCondition(TimerState)
          /\ ~isRunning
       THEN /\ isRunning' = TRUE
            /\ dirty' = {"isRunning"} \cup cardEffects([TimerState EXCEPT !.isRunning = TRUE])
            /\ cardsMounted' = cardsRendered([TimerState EXCEPT !.isRunning = TRUE])
            /\ cardTime' = cardTimeAfter([TimerState EXCEPT !.isRunning = TRUE])
       ELSE /\ isRunning' = isRunning
            /\ dirty' = {}
            /\ UNCHANGED <<cardsMounted, cardTime>>
    /\ UNCHANGED <<now, status, income, startTime, currentTime, last>>

\* a setInterval callback that also stores the sample
TickPersistsNow ==
    /\ status = "mounted"
    /\ intervalId
    /\ currentTime' = now
    /\ localStorage' = [key \in DOMAIN localStorage \cup {"now"} |->
                            IF key = "now" THEN ToString(now) ELSE localStorage[key]]
    /\ UNCHANGED <<now, status, income, isRunning, startTime,
                   dirty, intervalId, cardsMounted, cardIntervals, cardTime, last>>

\* the setInterval callback of useCurrentIncome under useIncomeTracker
Tick ==
    /\ status = "mounted"
    /\ intervalId
    /\ currentTime' = now
    /\ UNCHANGED <<now, status, income, isRunning, startTime, localStorage,
                   dirty, intervalId, cardsMounted, cardIntervals, cardTime, last>>

\* the setInterval callback of useCurrentIncome in a card; setCurrentTime on a
\* card that is no longer rendered changes nothing
TickCard ==
    /\ status = "mounted"
    /\ \E person \in People :
          /\ cardIntervals[person] > 0
          /\ cardTime' = IF cardsMounted
                         THEN [cardTime EXCEPT ![person] = now]
                         ELSE cardTime
    /\ UNCHANGED <<now, status, income, isRunning, startTime, localStorage,
                   dirty, intervalId, currentTime, cardsMounted, cardIntervals, last>>

\* the wall clock advances
Advance ==
    /\ now < MaxNow
    /\ now' = now + 1
    /\ UNCHANGED <<status, income, isRunning, startTime, localStorage, dirty,
                   intervalId, currentTime, cardsMounted, cardIntervals, cardTime, last>>

\* the wall clock is set back (Date.now() is not monotonic)
Skew ==
    /\ now > 1
    /\ now' = now - 1
    /\ UNCHANGED <<status, income, isRunning, startTime, localStorage, dirty,
                   intervalId, currentTime, cardsMounted, cardIntervals, cardTime, last>>

\* the page is reloaded: the old page is gone, the loader and the hooks run again
Reload ==
    /\ status' = Loaded(localStorage, "reload", now).status
    /\ income' = Loaded(localStorage, "reload", now).state.income
    /\ isRunning' = Loaded(localStorage, "reload", now).state.isRunning
    /\ startTime' = Loaded(localStorage, "reload", now).state.startTime
    /\ dirty' = Loaded(localStorage, "reload", now).dirty
    /\ last' = [Loaded(localStorage, "reload", now).last EXCEPT
                    !.pre = TimerState, !.prevOp = last.op,
                    !.preSettled = (status = "mounted" /\ dirty = {})]
    /\ intervalId' = FALSE
    /\ currentTime' = now
    /\ cardsMounted' = (Loaded(localStorage, "reload", now).status = "mounted"
                           /\ cardsRendered(Loaded(localStorage, "reload", now).state))
    /\ cardIntervals' = [person \in People |-> 0]
    /\ cardTime' = [person \in People |->
                       IF Loaded(localStorage, "reload", now).status = "mounted"
                             /\ cardsRendered(Loaded(localStorage, "reload", now).state)
                       THEN now ELSE 0]
    /\ UNCHANGED <<now, localStorage>>

Next == Start \/ Reset \/ SetIncome \/ FlushEffects \/ Tick \/ TickCard \/ Advance \/ Reload

Spec == Init /\ [][Next]_vars

\* the same page under a wall clock that can also be set back
NextSkew ==
    Start \/ Reset \/ SetIncome \/ FlushEffects \/ Tick \/ TickCard \/ Advance \/ Skew
        \/ Reload

SpecSkew == Init /\ [][NextSkew]_vars

\* ---- the page reached with arbitrary persisted entries ----

StoredTexts(key) ==
    CASE key = "income" -> {"", "{"} \cup {ToString(n) : n \in -1 .. MaxIncome}
      [] key = "isRunning" -> {"", "{", "true", "false"}
      [] key = "startTime" -> {"", "{", "null"} \cup {ToString(t) : t \in 0 .. MaxNow}

AllTexts == UNION {StoredTexts(key) : key \in Keys}

Stores ==
    UNION {{store \in [present -> AllTexts] :
                \A key \in present : store[key] \in StoredTexts(key)} :
           present \in SUBSET Keys}

InitStored == \E store \in Stores : InitFrom(store)

SpecStored == InitStored /\ [][Next]_vars

\* ---- the page's controls, each under its disabled/hidden guard ----

\* the start button: hidden={isRunning}, disabled={income <= 0 && !isRunning}
ClickStart ==
    /\ ~isRunning
    /\ ~(income <= 0 /\ ~isRunning)
    /\ Start

\* the reset button is always enabled
ClickReset == Reset

\* the income input: disabled={isRunning}
ChangeIncome ==
    /\ ~isRunning
    /\ SetIncome

NextUI ==
    ClickStart \/ ClickReset \/ ChangeIncome \/ FlushEffects \/ Tick \/ TickCard
        \/ Advance \/ Reload

SpecUI == Init /\ [][NextUI]_vars

\* ---- the states of the timer ----

Idle(s) == s.income = 0 /\ ~s.isRunning

Configured(s) == s.income > 0 /\ ~s.isRunning

Running(s) == s.income > 0 /\ s.isRunning /\ s.startTime # Null

\* ---- claims ----

\* C1: in every state reachable from the default state by start(), reset(),
\* setIncome(v), clock ticks and reloads, isRunning = true implies that
\* startTime is not null.
C1_RunningHasStartTime == isRunning => startTime # Null

C1_Witness == isRunning /\ startTime # Null /\ last.op = "reload" /\ last.pre.isRunning

C4_ResetYieldsDefault == last.op = "reset" => TimerState = DefaultState

C4_Witness == Settled /\ last.op = "reset" /\ Running(last.pre) /\ TimerState = DefaultState

\* the persistence layer holds {income, isRunning:true, startTime:T}
PersistedRunning(store) ==
    /\ DOMAIN store = Keys
    /\ store["income"] \in {ToString(n) : n \in -1 .. MaxIncome}
    /\ store["isRunning"] = "true"
    /\ store["startTime"] \in {ToString(t) : t \in 0 .. MaxNow}

\* C5: when the persistence layer holds {income, isRunning:true, startTime:T},
\* reinitialising from it yields an in-memory state whose income, isRunning and
\* startTime are exactly the persisted ones, and the persisted entries are
\* unchanged by the reinitialisation (also after the mount effects have run).
C5_ReloadRoundTrip ==
    (last.op \in {"load", "reload"} /\ PersistedRunning(last.preStore)) =>
        /\ status = "mounted"
        /\ isRunning
        /\ startTime # Null
        /\ \A key \in Keys : Encoded(TimerState, key) = last.preStore[key]
        /\ localStorage = last.preStore

C5_Witness ==
    /\ last.op = "reload" /\ PersistedRunning(last.preStore)
    /\ Settled
    /\ income > 0 /\ isRunning /\ startTime # Null /\ startTime[1] < now

\* C6: write-through: once the effects of a mutation have run, the persisted
\* income, isRunning and startTime are the encodings of the in-memory values,
\* and a reload made at such a point resumes with the same startTime and income.
C6_WriteThrough ==
    /\ Settled => \A key \in Keys :
                     key \in DOMAIN localStorage
                        /\ localStorage[key] = Encoded(TimerState, key)
    /\ (last.op = "reload" /\ last.preSettled) =>
            (status = "mounted" /\ startTime = last.pre.startTime
                /\ income = last.pre.income)

C6_Witness ==
    /\ last.op = "reload" /\ last.preSettled /\ Settled
    /\ last.prevOp = "start"
    /\ startTime # Null /\ startTime = last.pre.startTime
    /\ localStorage["startTime"] = ToString(startTime[1])

\* every persisted entry is absent or is not valid JSON
AbsentOrMalformed(store) == \A key \in DOMAIN store : ~IsJSON(store[key])

\* C7: initialising from a persistence layer whose entries are absent or
\* malformed (not valid JSON) raises no error and yields the default state.
C7_MalformedFallsBack ==
    (last.op \in {"load", "reload"} /\ AbsentOrMalformed(last.preStore)) =>
        (status = "mounted" /\ TimerState = DefaultState)

\* C8: every settled state reached through the page's controls is Idle,
\* Configured or Running.
C8_SettledStates ==
    Settled => (Idle(TimerState) \/ Configured(TimerState) \/ Running(TimerState))

C10_Original ==
    last.op = "setIncome" =>
        /\ startTime = last.pre.startTime
        /\ (Settled /\ Running(last.pre)) => Running(TimerState)

\* C10 (amended): setIncome(v) never changes startTime; applied in the Running
\* state it leaves isRunning true and startTime set, and the timer is still in
\* the Running state exactly when v > 0.
C10_SetIncomeFrame ==
    last.op = "setIncome" =>
        /\ startTime = last.pre.startTime
        /\ Running(last.pre) =>
              /\ isRunning
              /\ startTime # Null
              /\ Running(TimerState) <=> last.arg > 0

C10_Witness ==
    /\ Settled /\ last.op = "setIncome" /\ Running(last.pre)
    /\ last.arg = 0 /\ income = 0 /\ isRunning /\ startTime = last.pre.startTime

\* C11: the stored income is >= 0 in every state reachable from the default
\* state by setIncome(v) with numeric input v, start() and reset().
C11_IncomeNonNegative == income >= 0

SameAmount(a, b) == (a.num.m = 0 /\ b.num.m = 0) \/ a = b

\* C12: for every non-null startTime, 0 included, and every now and
\* annualIncome, the earned amount is
\* (now - startTime) * annualIncome / MILLIS_PER_YEAR.
C12_EarnedFormula ==
    (status = "mounted" /\ startTime # Null) =>
        SameAmount(earned,
                   Amount(Dec((currentTime - startTime[1]) * income, 0),
                          Dec(365 * 24 * 60 * 60, 3)))

\* C13: when startTime is null the earned amount is 0 for every annualIncome
\* and every now; so the displayed earnings are 0 in every state after reset()
\* until the next start(), whatever ticks occur.
C13_NullStartEarnsNothing ==
    /\ startTime = Null => SameAmount(earned, ZeroAmount)
    /\ last.op = "reset" => (SameAmount(earned, ZeroAmount) /\ ~cardsMounted)

C13_Witness ==
    /\ startTime = Null /\ income > 0 /\ currentTime > 1
    /\ last.op = "setIncome" /\ last.prevOp = "reset"
    /\ SameAmount(earned, ZeroAmount)

\* C14: for a fixed annualIncome >= 0 and a fixed startTime, the earned amount
\* is non-decreasing over successive clock ticks whose now values are
\* non-decreasing.
C14_EarnedMonotone ==
    [][(/\ income' = income
        /\ income >= 0
        /\ startTime' = startTime
        /\ currentTime' >= currentTime)
       => useCurrentIncome(Dec(income', 0), startTime', currentTime').num.m
             >= useCurrentIncome(Dec(income, 0), startTime, currentTime).num.m]_vars

C14_Witness ==
    /\ Settled /\ isRunning /\ income > 0 /\ startTime # Null
    /\ currentTime > startTime[1]
    /\ earned.num.m > 0

\* the sampling timers installed, and the consumers of the live clock rendered
activeTimers ==
    (IF intervalId THEN {"Home"} ELSE {})
        \cup {person \in People : cardIntervals[person] > 0}

mountedConsumers ==
    (IF status = "mounted" THEN {"Home"} ELSE {})
        \cup (IF cardsMounted THEN People ELSE {})

C16_Original ==
    \A shown \in displayedAmounts :
        shown.digits = IF AmountLess(shown.amount, 0) THEN 5 ELSE 2

\* C16 (amended): every amount on a comparison card has 5 fraction digits when
\* it is < 1 and 2 otherwise; the amount on the primary ticker card always has
\* 2 fraction digits.
C16_FractionDigits ==
    \A shown \in displayedAmounts :
        shown.digits = IF shown.on = "card" /\ AmountLess(shown.amount, 0) THEN 5 ELSE 2

C16_Witness ==
    /\ cardsMounted
    /\ \E shown \in displayedAmounts :
          shown.on = "card" /\ AmountLess(shown.amount, 0)
             /\ shown.amount.num.m > 0 /\ shown.digits = 5
    /\ \E shown \in displayedAmounts :
          shown.on = "card" /\ ~AmountLess(shown.amount, 0)
             /\ shown.amount.den = MillisPerYear /\ shown.digits = 2
    /\ \E shown \in displayedAmounts :
          shown.on = "ticker" /\ AmountLess(shown.amount, 0)
             /\ shown.amount.num.m > 0 /\ shown.digits = 2

\* C17: a clock tick changes only the sampled now of its own driver: it leaves
\* income, isRunning, startTime, the persisted entries and every other driver's
\* sample unchanged; and now is never written to the persistence layer.
C17_TickFrame ==
    /\ [](DOMAIN localStorage \subseteq Keys)
    /\ [][(/\ last' = last
           /\ dirty' = dirty
           /\ now' = now
           /\ (currentTime' # currentTime \/ cardTime' # cardTime))
          => /\ income' = income
             /\ isRunning' = isRunning
             /\ startTime' = startTime
             /\ localStorage' = localStorage
             /\ \/ currentTime' = now /\ cardTime' = cardTime
                \/ /\ currentTime' = currentTime
                   /\ \E person \in People :
                         cardTime' = [cardTime EXCEPT ![person] = now]]_vars

C17_Witness ==
    /\ Settled /\ cardsMounted
    /\ currentTime = now
    /\ \E person \in People :
          cardTime[person] = now /\ \A other \in People \ {person} : cardTime[other] < now
    /\ localStorage["startTime"] = ToString(startTime[1])

====
